---- MODULE Spec2Model ----
(***************************************************************************)
(* The session of src/main.cpp: the two preprocessing phases (IKNP random  *)
(* OTs, KKRT 1-of-delta OTs), each run by two role threads, and the online *)
(* loop of the Pool OPRF (Request, BlindEval, Finalize, sanity assertion). *)
(*                                                                         *)
(* The protocol parameters are scaled down so that the state space is      *)
(* finite and small: the relations between them are the source's           *)
(* (q = 2^lg_q, p = 2^lg_p, delta = 2^lg_delta, q = delta * p, every       *)
(* modulus divides the machine word).  An OT block is modelled by its lane *)
(* 0, the only part of a block the program reads.  The OT extenders are a  *)
(* library: an extension that succeeds is modelled by its contract (random *)
(* outputs, the receiver's equal to the sender's on the chosen side), one  *)
(* that fails leaves the output buffer as it was.                          *)
(***************************************************************************)
EXTENDS Integers, Naturals, Sequences, FiniteSets, TLC

(* ------------------------- protocol parameters ------------------------ *)

\* src/main.cpp:38  const uint n = 482 (scaled)
n == 2
\* src/main.cpp:39  const uint tau = 1 << 16 (scaled)
tau == 3
\* src/main.cpp:43  lg_p = 1 << lg_lg_p = 8 (scaled)
lg_p == 2
\* src/main.cpp:45  lg_delta = 7 - lg_lg_p = 4 (scaled)
lg_delta == 2
\* src/main.cpp:40  lg_q = 12 = lg_delta + lg_p
lg_q == lg_delta + lg_p
q == 2 ^ lg_q
p == 2 ^ lg_p
delta == 2 ^ lg_delta
\* src/main.cpp:454  int step = 1 << 10 (scaled)
step == 2
\* src/main.cpp:49  const uint kappa = 6144 (scaled)
kappa == 3
\* width of uint / int32_t (scaled: TLC's integers end at 2^31 - 1)
WordBits == 12
Word == 2 ^ WordBits
\* width of osuCrypto::u64 relative to uint (scaled)
Wide == 2 ^ (WordBits + 8)

(* ------------------------------ bounds -------------------------------- *)

\* number of values of the environment's randomness explored: the OT sessions'
\* outputs, the content of unwritten memory and the seed of main's PRNG
MaxSeed == 2
\* number of seeds sysRandomSeed() gives the phase two receiver's PRNG
MaxPrngSeed == 4
\* number of extender failures the environment injects in one session
MaxFail == 1

Seeds == 0 .. (MaxSeed - 1)
PrngSeeds == 0 .. (MaxPrngSeed - 1)
Bit == {0, 1}
Roles == {"p1r", "p1s", "p2r", "p2s"}

(* --------------------------- machine arithmetic ----------------------- *)

\* x & (m - 1) for a power of two m: the low bits of x
Mask(v, m) == v % m
\* unsigned wrap-around of uint arithmetic
U(v) == v % Word
\* unsigned wrap-around of u64 arithmetic
U64(v) == v % Wide
\* v >> k
Shr(v, k) == v \div (2 ^ k)

\* memcpy of a block into int32_t arr[4]; arr[0]: lane 0 read as signed
SignedLane0(blk) == IF blk >= Word \div 2 THEN blk - Word ELSE blk
\* a conversion that keeps the magnitude of a negative lane
ToUintMagnitude(s) == IF s < 0 THEN 0 - s ELSE s
\* assignment of an int32_t to a uint holder
ToUint(s) == s % Word
Lane0Uint(blk) == ToUint(SignedLane0(blk))

(* ------------------ library randomness (deterministic in the seed) ---- *)

\* block k, side c of the phase-one random OTs of a session with randomness s
Blk1(s, k, c) ==
    (2741 * (s + 1) + 1367 * k + 2003 * c + 389 * k * c + 57 * s * c * (k + 1)
        + 2048 * ((s + k + c * k) % 2)) % Word
\* block (i, k) of the phase-two 1-of-delta random OTs
Blk2(s, i, k) ==
    (1999 * (s + 1) + 853 * i + 3301 * k + 211 * i * k + 77 * s * k
        + 2048 * ((s + i + k) % 2)) % Word
\* content of memory that was never written (an AlignedUnVector, or what lies
\* past the end of an array), one of the patterns g
Junk(g, k, c) ==
    (3571 * (g + 1) + 911 * k + 1733 * c + 131 * k * c + 2048 * ((g + c) % 2)) % Word
\* draw k of prng.get<u8>() of a PRNG seeded with s
Prng8(s, k) == (s + 37 * k + 64 * ((s + k) % 4)) % 256
\* draw k of prng.get<int64_t>() of a PRNG seeded with s
PrngI64(s, k) == 1 + 5 * s + 3 * k + s * k
\* byte k of the random oracle's output for the seeds (t, x)
RObyte(tt, xx, k) ==
    (97 * (tt + 1) + 61 * (xx + 1) * (k + 1) + 29 * k * k + 13 * tt * xx) % 256

\* draw k of prng.get<block>() of a PRNG seeded with the block sd
Prg(sd, k) ==
    (1181 * (sd + 1) + 677 * k + 19 * sd * k + 2048 * ((sd + k) % 2)) % Word

VARIABLES
    num_rounds,     \* const uint num_rounds
    pc,             \* position of main
    r1pc, s1pc,     \* positions of phase_one_iknp_receive / _send
    r2pc, s2pc,     \* positions of phase_two_kkrt_receive / _send
    failed,         \* roles whose extender raised an error
    seed,           \* the environment's randomness
    prng2, prngm,   \* PRNG of phase_two_kkrt_receive and of main: seed, draws
    b, Rs_r, Sc,    \* phase one buffers
    bpr, Rc_r, Ss,  \* phase two buffers
    ri, rmin, rj,   \* receiveRoutine: i, min, j
    si, smin, sj,   \* sendRoutine: i, min, j
    corr,           \* corrections sent and not yet received (batch sizes)
    sk, b_bar, Sc_uint,
    ctr, round,
    t, x, a, e_0, e_1, c_sum, bpr_bar,
    atil_sum, y,
    z, eval_z,
    slots,          \* history: per round begun, the slot indices it read
    oob,            \* history: an index outside its array was used
    trace,          \* history: per role, the calls it has made, in order
    ext,            \* benchmark_alt_preproc: the Silent OT (n) results and their extension
    tampered        \* entries of Ss overwritten from outside the program

confVars == <<num_rounds>>
ctlVars == <<pc, r1pc, s1pc, r2pc, s2pc, failed, seed>>
prngVars == <<prng2, prngm>>
p1Vars == <<b, Rs_r, Sc>>
p2Vars == <<bpr, Rc_r, Ss>>
kkrtVars == <<ri, rmin, rj, si, smin, sj, corr>>
keyVars == <<sk, b_bar, Sc_uint>>
loopVars == <<ctr, round>>
roundVars == <<t, x, a, e_0, e_1, c_sum, bpr_bar, atil_sum, y, z, eval_z>>
histVars == <<slots, oob, trace>>
\* what no step of the session touches
sideVars == <<ext, tampered>>
vars == <<confVars, sideVars, ctlVars, prngVars, p1Vars, p2Vars, kkrtVars, keyVars, loopVars, roundVars, histVars>>

\* benchmark_alt_preproc has not reached the extension of the Silent OT results
ExtIdle == [pc |-> "idle"]

\* a call of a role: its name and its argument (0 if it has none)
Call(name) == <<name, 0>>
\* the role's calls, with the calls evs made now
Log(role, evs) == [trace EXCEPT ![role] = @ \o evs]

\* a table in which the phase-one sender fills the receiver's result buffer
TouchesShared(role, name) ==
    CASE role = "p1r" /\ name = "tile" -> {<<"b", "w">>}
      [] role = "p1r" /\ name = "extend" -> {<<"b", "r">>, <<"Rs_r", "w">>}
      [] role = "p1s" /\ name = "extend" -> {<<"Sc", "w">>, <<"Rs_r", "w">>}
      [] role = "p2r" /\ name = "encode" -> {<<"bpr", "w">>, <<"bpr", "r">>, <<"Rc_r", "w">>}
      [] role = "p2s" /\ name = "encode" -> {<<"Ss", "w">>}
      [] OTHER -> {}
\* the preprocessing buffers a call of a role reads ("r") and writes ("w"):
\* the tiling loop writes b, receiver.receive(b, Rs_r, ..) reads b and writes
\* Rs_r, sender.send(Sc, ..) writes Sc, the receiver's encode step writes
\* bpr[i], reads it and writes Rc_r[i], the sender's writes row i of Ss
Touches(role, name) ==
    CASE role = "p1r" /\ name = "tile" -> {<<"b", "w">>}
      [] role = "p1r" /\ name = "extend" -> {<<"b", "r">>, <<"Rs_r", "w">>}
      [] role = "p1s" /\ name = "extend" -> {<<"Sc", "w">>}
      [] role = "p2r" /\ name = "encode" -> {<<"bpr", "w">>, <<"bpr", "r">>, <<"Rc_r", "w">>}
      [] role = "p2s" /\ name = "encode" -> {<<"Ss", "w">>}
      [] OTHER -> {}

P1Idx == 0 .. (n * tau - 1)
NIdx == 0 .. (n - 1)
TauIdx == 0 .. (tau - 1)
DeltaIdx == 0 .. (delta - 1)

\* the locals of one loop iteration, before the iteration has set them
NoRound ==
    /\ t' = 0 /\ x' = 0
    /\ a' = <<>> /\ e_0' = <<>> /\ e_1' = <<>>
    /\ c_sum' = 0 /\ bpr_bar' = 0
    /\ atil_sum' = 0 /\ y' = <<>>
    /\ z' = 0 /\ eval_z' = 0

InitCommon ==
    /\ pc = "start"
    /\ r1pc = "idle" /\ s1pc = "idle" /\ r2pc = "idle" /\ s2pc = "idle"
    /\ failed = {}
    /\ seed = 0
    /\ prng2 = [seed |-> 0, used |-> 0] /\ prngm = [seed |-> 0, used |-> 0]
    /\ b = <<>> /\ Rs_r = <<>> /\ Sc = <<>>
    /\ bpr = <<>> /\ Rc_r = <<>> /\ Ss = <<>>
    /\ ri = 0 /\ rmin = 0 /\ rj = 0
    /\ si = 0 /\ smin = 0 /\ sj = 0
    /\ corr = <<>>
    /\ sk = <<>> /\ b_bar = <<>> /\ Sc_uint = <<>>
    /\ ctr = 0 /\ round = 0
    /\ t = 0 /\ x = 0
    /\ a = <<>> /\ e_0 = <<>> /\ e_1 = <<>>
    /\ c_sum = 0 /\ bpr_bar = 0
    /\ atil_sum = 0 /\ y = <<>>
    /\ z = 0 /\ eval_z = 0
    /\ slots = <<>>
    /\ oob = FALSE
    /\ trace = [r \in Roles |-> <<>>]
    /\ tampered = {}

\* the parameters are consistent: tau is big enough for num_rounds rounds
Init ==
    /\ num_rounds \in 0 .. tau
    /\ InitCommon
    /\ ext = ExtIdle

(* ------------------------------ phase one ----------------------------- *)

Xor(u, v) == (u + v) % 2
Min(u, v) == IF u < v THEN u ELSE v
Past(rolepc, places) == rolepc \in places
\* two roles that both connect as connectors: no connection is ever made
ConnectedNever(peerpc) == FALSE
\* asioConnect(.., false) on one side and asioConnect(.., true) on the other:
\* the connection stands once the peer has made its call
Connected(peerpc) == peerpc # "connect"

\* a tiling loop that rotates the pattern from one repetition to the next
RECURSIVE TileRowRotated(_, _, _, _)
TileRowRotated(bv, b_n, j, i) ==
    IF i >= n THEN bv
    ELSE TileRowRotated([bv EXCEPT ![j * n + i] = b_n[(i + j) % n]], b_n, j, i + 1)

\* for (i = 0; i < n; i++) b[j * n + i] = b_n[i];
RECURSIVE TileRow(_, _, _, _)
TileRow(bv, b_n, j, i) ==
    IF i >= n THEN bv
    ELSE TileRow([bv EXCEPT ![j * n + i] = b_n[i]], b_n, j, i + 1)

\* for (j = 0; j < tau; j++) ...
RECURSIVE TileAll(_, _, _)
TileAll(bv, b_n, j) ==
    IF j >= tau THEN bv
    ELSE TileAll(TileRow(bv, b_n, j, 0), b_n, j + 1)

\* receiver.receive(b, Rs_r, prng, sock): the chosen side of every random OT
IknpReceive(s, bv) == [k \in P1Idx |-> Blk1(s, k, bv[k])]
\* sender.send(Sc, prng, sock): both sides of every random OT
IknpSend(s) == [k \in P1Idx |-> [c \in Bit |-> Blk1(s, k, c)]]

\* main: the phase one buffers are allocated (b zeroed, the two AlignedUnVector
\* left unwritten), the receiver thread is spawned and main calls the sender.
\* benchmark_alt_preproc(), which runs first, shares no data with the session.
StartPhaseOne ==
    /\ pc = "start"
    /\ \E s \in Seeds :
        /\ seed' = s
        /\ Rs_r' = [k \in P1Idx |-> Junk(s, k, 0)]
        /\ Sc' = [k \in P1Idx |-> [c \in Bit |-> Junk(s, k + 1, c)]]
    /\ b' = [k \in P1Idx |-> 0]
    /\ r1pc' = "connect" /\ s1pc' = "connect"
    /\ pc' = "p1"
    /\ UNCHANGED <<confVars, sideVars, prngVars, r2pc, s2pc, failed, p2Vars, kkrtVars, keyVars, loopVars, roundVars, histVars>>

P1Frame == UNCHANGED <<confVars, sideVars, prngVars, pc, r2pc, s2pc, seed, p2Vars, kkrtVars, keyVars, loopVars, roundVars, slots, oob>>

P1RecvConnect ==
    /\ r1pc = "connect"
    /\ r1pc' = "baseot"
    /\ trace' = Log("p1r", <<Call("connect")>>)
    /\ UNCHANGED <<s1pc, failed, p1Vars>> /\ P1Frame

\* baseOt.send: completes with the peer's baseOt.receive
P1RecvBaseOt ==
    /\ r1pc = "baseot" /\ Connected(s1pc)
    /\ r1pc' = "setbase"
    /\ trace' = Log("p1r", <<Call("baseOt")>>)
    /\ UNCHANGED <<s1pc, failed, p1Vars>> /\ P1Frame

P1RecvSetBaseOts ==
    /\ r1pc = "setbase"
    /\ r1pc' = "tile"
    /\ trace' = Log("p1r", <<Call("setBaseOts")>>)
    /\ UNCHANGED <<s1pc, failed, p1Vars>> /\ P1Frame

\* b_n.randomize(prng), then the tiling loops
P1RecvTile ==
    /\ r1pc = "tile"
    /\ \E b_n \in [NIdx -> Bit] : b' = TileAll(b, b_n, 0)
    /\ r1pc' = "extend"
    /\ trace' = Log("p1r", <<Call("tile")>>)
    /\ UNCHANGED <<s1pc, failed, Rs_r, Sc>> /\ P1Frame

P1RecvExtend ==
    /\ r1pc = "extend"
    /\ Rs_r' = IknpReceive(seed, b)
    /\ r1pc' = "flush"
    /\ trace' = Log("p1r", <<Call("extend")>>)
    /\ UNCHANGED <<s1pc, failed, b, Sc>> /\ P1Frame

\* the extension throws: caught, logged, sock.close(); Rs_r is not written
P1RecvExtendFail ==
    /\ r1pc = "extend"
    /\ Cardinality(failed) < MaxFail
    /\ failed' = failed \cup {"p1r"}
    /\ r1pc' = "flush"
    /\ trace' = Log("p1r", <<Call("extend"), Call("error"), Call("close")>>)
    /\ UNCHANGED <<s1pc, p1Vars>> /\ P1Frame

P1RecvFlush ==
    /\ r1pc = "flush"
    /\ r1pc' = "report"
    /\ trace' = Log("p1r", <<Call("flush")>>)
    /\ UNCHANGED <<s1pc, failed, p1Vars>> /\ P1Frame

P1RecvReport ==
    /\ r1pc = "report"
    /\ r1pc' = "ret"
    /\ trace' = Log("p1r", <<Call("report")>>)
    /\ UNCHANGED <<s1pc, failed, p1Vars>> /\ P1Frame

P1SendConnect ==
    /\ s1pc = "connect"
    /\ s1pc' = "baseot"
    /\ trace' = Log("p1s", <<Call("connect")>>)
    /\ UNCHANGED <<r1pc, failed, p1Vars>> /\ P1Frame

\* baseOt.receive: completes with the peer's baseOt.send
P1SendBaseOt ==
    /\ s1pc = "baseot" /\ Connected(r1pc)
    /\ s1pc' = "setbase"
    /\ trace' = Log("p1s", <<Call("baseOt")>>)
    /\ UNCHANGED <<r1pc, failed, p1Vars>> /\ P1Frame

P1SendSetBaseOts ==
    /\ s1pc = "setbase"
    /\ s1pc' = "extend"
    /\ trace' = Log("p1s", <<Call("setBaseOts")>>)
    /\ UNCHANGED <<r1pc, failed, p1Vars>> /\ P1Frame

\* sender.send needs the receiver's extension message
P1SendExtend ==
    /\ s1pc = "extend"
    /\ Past(r1pc, {"flush", "report", "ret"}) /\ "p1r" \notin failed
    /\ Sc' = IknpSend(seed)
    /\ s1pc' = "flush"
    /\ trace' = Log("p1s", <<Call("extend")>>)
    /\ UNCHANGED <<r1pc, failed, b, Rs_r>> /\ P1Frame

\* the extension throws (also when the peer has closed its socket): caught,
\* logged, sock.close(); Sc is not written
P1SendExtendFail ==
    /\ s1pc = "extend"
    /\ Cardinality(failed) < MaxFail \/ "p1r" \in failed
    /\ failed' = failed \cup {"p1s"}
    /\ s1pc' = "flush"
    /\ trace' = Log("p1s", <<Call("extend"), Call("error"), Call("close")>>)
    /\ UNCHANGED <<r1pc, p1Vars>> /\ P1Frame

P1SendFlush ==
    /\ s1pc = "flush"
    /\ s1pc' = "report"
    /\ trace' = Log("p1s", <<Call("flush")>>)
    /\ UNCHANGED <<r1pc, failed, p1Vars>> /\ P1Frame

\* sleep_for(1 s), then the byte report
P1SendReport ==
    /\ s1pc = "report"
    /\ s1pc' = "ret"
    /\ trace' = Log("p1s", <<Call("report")>>)
    /\ UNCHANGED <<r1pc, failed, p1Vars>> /\ P1Frame

\* a driver that detaches its thread instead of joining it
JoinedCallerOnly(callerpc, threadpc) == callerpc = "ret"
\* the role run on the calling thread has returned and thread.join() returns:
\* the role run on the spawned thread has returned too
Joined(callerpc, threadpc) == callerpc = "ret" /\ threadpc = "ret"

\* phase_one_iknp_send has returned and phase_one_iknp_thread.join() returns
JoinPhaseOne ==
    /\ pc = "p1" /\ Joined(s1pc, r1pc)
    /\ pc' = "alloc2"
    /\ UNCHANGED <<confVars, sideVars, prngVars, r1pc, s1pc, r2pc, s2pc, failed, seed, p1Vars, p2Vars, kkrtVars, keyVars, loopVars, roundVars, histVars>>

(* ------------------------------ phase two ----------------------------- *)

\* receiver.encode(i, &bpr[i], &Rc_r[i])
KkrtEncodeRecv(s, i, choice) == Blk2(s, i, choice)
\* sender.encode(i, &choice, &Ss[i][k]) for every k
KkrtEncodeSend(s, i) == [k \in DeltaIdx |-> Blk2(s, i, k)]

\* a batch loop that stops one slot early
KkrtLoopCondShort(i) == i < tau - 1
\* for (u64 i = 0; i < tau;): the loop test
KkrtLoopCond(i) == i < tau
\* a batch size that forgets the end of the array
BatchSizeFixed(i) == step
\* for (i = 0; i < tau;): the loop test and int min = std::min(tau - i, step)
BatchSize(i) == Min(tau - i, step)

\* main: the phase two buffers are allocated (all three zeroed), the receiver
\* thread is spawned and main calls the sender
StartPhaseTwo ==
    /\ pc = "alloc2"
    /\ bpr' = [i \in TauIdx |-> 0]
    /\ Rc_r' = [i \in TauIdx |-> 0]
    /\ Ss' = [i \in TauIdx |-> [k \in DeltaIdx |-> 0]]
    /\ r2pc' = "connect" /\ s2pc' = "connect"
    /\ pc' = "p2"
    /\ UNCHANGED <<confVars, sideVars, prngVars, r1pc, s1pc, failed, seed, p1Vars, kkrtVars, keyVars, loopVars, roundVars, histVars>>

P2Frame == UNCHANGED <<confVars, sideVars, prngm, pc, r1pc, s1pc, seed, p1Vars, keyVars, loopVars, roundVars, slots, oob>>
P2RecvOnly == UNCHANGED <<s2pc, Ss, si, smin, sj>>
P2SendOnly == UNCHANGED <<r2pc, prng2, bpr, Rc_r, ri, rmin, rj>>

\* PRNG prng(sysRandomSeed()), then asioConnect
P2RecvConnect ==
    /\ r2pc = "connect"
    /\ \E s \in PrngSeeds : prng2' = [seed |-> s, used |-> 0]
    /\ r2pc' = "init"
    /\ trace' = Log("p2r", <<Call("connect")>>)
    /\ UNCHANGED <<failed, bpr, Rc_r, ri, rmin, rj, corr>> /\ P2RecvOnly /\ P2Frame

\* receiver.configure, receiver.init (the base OTs, run with the peer's init),
\* then the first loop test
P2RecvInit ==
    /\ r2pc = "init" /\ Connected(s2pc)
    /\ ri' = 0 /\ rj' = 0
    /\ rmin' = IF KkrtLoopCond(0) THEN BatchSize(0) ELSE rmin
    /\ r2pc' = IF KkrtLoopCond(0) THEN "encode" ELSE "check"
    /\ trace' = Log("p2r", <<Call("init")>>)
    /\ UNCHANGED <<failed, prng2, bpr, Rc_r, corr>> /\ P2RecvOnly /\ P2Frame

\* one iteration of the inner loop: sample bpr[i], encode into Rc_r[i]
P2RecvEncode ==
    /\ r2pc = "encode"
    /\ LET choice == Mask(Prng8(prng2.seed, prng2.used), delta) IN
        /\ bpr' = [bpr EXCEPT ![ri] = choice]
        /\ Rc_r' = [Rc_r EXCEPT ![ri] = KkrtEncodeRecv(seed, ri, choice)]
    /\ prng2' = [prng2 EXCEPT !.used = @ + 1]
    /\ ri' = ri + 1 /\ rj' = rj + 1
    /\ r2pc' = IF rj + 1 < rmin THEN "encode" ELSE "correction"
    /\ trace' = Log("p2r", <<<<"encode", ri>>>>)
    /\ UNCHANGED <<failed, rmin, corr>> /\ P2RecvOnly /\ P2Frame

\* receiver.sendCorrection(sock, min), then the loop test of the next batch
P2RecvCorrection ==
    /\ r2pc = "correction"
    /\ corr' = Append(corr, rmin)
    /\ rj' = 0
    /\ rmin' = IF KkrtLoopCond(ri) THEN BatchSize(ri) ELSE rmin
    /\ r2pc' = IF KkrtLoopCond(ri) THEN "encode" ELSE "check"
    /\ trace' = Log("p2r", <<<<"sendCorrection", rmin>>>>)
    /\ UNCHANGED <<failed, prng2, bpr, Rc_r, ri>> /\ P2RecvOnly /\ P2Frame

\* receiver.check(sock, prng.get())
P2RecvCheck ==
    /\ r2pc = "check"
    /\ prng2' = [prng2 EXCEPT !.used = @ + 1]
    /\ r2pc' = "flush"
    /\ trace' = Log("p2r", <<Call("check")>>)
    /\ UNCHANGED <<failed, bpr, Rc_r, ri, rmin, rj, corr>> /\ P2RecvOnly /\ P2Frame

P2RecvFlush ==
    /\ r2pc = "flush"
    /\ r2pc' = "report"
    /\ trace' = Log("p2r", <<Call("flush")>>)
    /\ UNCHANGED <<failed, prng2, bpr, Rc_r, ri, rmin, rj, corr>> /\ P2RecvOnly /\ P2Frame

\* an awaited step of receiveRoutine throws (init, sendCorrection, or a
\* digest mismatch in check): caught and logged, the routine is abandoned
P2RecvFail ==
    /\ r2pc \in {"init", "correction", "check"}
    /\ Cardinality(failed) < MaxFail
    /\ failed' = failed \cup {"p2r"}
    /\ r2pc' = "report"
    /\ trace' = Log("p2r", <<Call("error")>>)
    /\ UNCHANGED <<prng2, bpr, Rc_r, ri, rmin, rj, corr>> /\ P2RecvOnly /\ P2Frame

P2RecvReport ==
    /\ r2pc = "report"
    /\ r2pc' = "ret"
    /\ trace' = Log("p2r", <<Call("report")>>)
    /\ UNCHANGED <<failed, prng2, bpr, Rc_r, ri, rmin, rj, corr>> /\ P2RecvOnly /\ P2Frame

P2SendConnect ==
    /\ s2pc = "connect"
    /\ s2pc' = "init"
    /\ trace' = Log("p2s", <<Call("connect")>>)
    /\ UNCHANGED <<failed, Ss, si, smin, sj, corr>> /\ P2SendOnly /\ P2Frame

\* sender.configure, sender.init, then the first loop test
P2SendInit ==
    /\ s2pc = "init" /\ Connected(r2pc)
    /\ si' = 0 /\ sj' = 0
    /\ smin' = IF KkrtLoopCond(0) THEN BatchSize(0) ELSE smin
    /\ s2pc' = IF KkrtLoopCond(0) THEN "recvcorr" ELSE "check"
    /\ trace' = Log("p2s", <<Call("init")>>)
    /\ UNCHANGED <<failed, Ss, corr>> /\ P2SendOnly /\ P2Frame

\* sender.recvCorrection(sock, min): waits for the receiver's correction
P2SendRecvCorrection ==
    /\ s2pc = "recvcorr"
    /\ corr # <<>>
    /\ corr' = Tail(corr)
    /\ sj' = 0
    /\ s2pc' = "encode"
    /\ trace' = Log("p2s", <<<<"recvCorrection", smin>>>>)
    /\ UNCHANGED <<failed, Ss, si, smin>> /\ P2SendOnly /\ P2Frame

\* one iteration of the loop over j: row i of Ss, every choice k
P2SendEncode ==
    /\ s2pc = "encode"
    /\ Ss' = [Ss EXCEPT ![si] = KkrtEncodeSend(seed, si)]
    /\ si' = si + 1 /\ sj' = sj + 1
    /\ smin' = IF sj + 1 < smin THEN smin
               ELSE IF KkrtLoopCond(si + 1) THEN BatchSize(si + 1) ELSE smin
    /\ s2pc' = IF sj + 1 < smin THEN "encode"
               ELSE IF KkrtLoopCond(si + 1) THEN "recvcorr" ELSE "check"
    /\ trace' = Log("p2s", <<<<"encode", si>>>>)
    /\ UNCHANGED <<failed, corr>> /\ P2SendOnly /\ P2Frame

P2SendCheck ==
    /\ s2pc = "check"
    /\ s2pc' = "flush"
    /\ trace' = Log("p2s", <<Call("check")>>)
    /\ UNCHANGED <<failed, Ss, si, smin, sj, corr>> /\ P2SendOnly /\ P2Frame

P2SendFlush ==
    /\ s2pc = "flush"
    /\ s2pc' = "report"
    /\ trace' = Log("p2s", <<Call("flush")>>)
    /\ UNCHANGED <<failed, Ss, si, smin, sj, corr>> /\ P2SendOnly /\ P2Frame

\* an awaited step of sendRoutine throws (also when the peer has abandoned its
\* routine and its socket is gone): caught and logged, the routine is abandoned
P2SendFail ==
    /\ s2pc \in {"init", "recvcorr", "check"}
    /\ Cardinality(failed) < MaxFail \/ ("p2r" \in failed /\ corr = <<>>)
    /\ failed' = failed \cup {"p2s"}
    /\ s2pc' = "report"
    /\ trace' = Log("p2s", <<Call("error")>>)
    /\ UNCHANGED <<Ss, si, smin, sj, corr>> /\ P2SendOnly /\ P2Frame

\* sleep_for(1 s), then the byte report
P2SendReport ==
    /\ s2pc = "report"
    /\ s2pc' = "ret"
    /\ trace' = Log("p2s", <<Call("report")>>)
    /\ UNCHANGED <<failed, Ss, si, smin, sj, corr>> /\ P2SendOnly /\ P2Frame

\* phase_two_kkrt_send has returned and phase_2_thread.join() returns
JoinPhaseTwo ==
    /\ pc = "p2" /\ Joined(s2pc, r2pc)
    /\ pc' = "keygen"
    /\ UNCHANGED <<confVars, sideVars, prngVars, r1pc, s1pc, r2pc, s2pc, failed, seed, p1Vars, p2Vars, kkrtVars, keyVars, loopVars, roundVars, histVars>>

(* ------------------------------ online phase -------------------------- *)

\* sum of f[0 .. k-1] in a uint accumulator
RECURSIVE SumU(_, _)
SumU(f, k) == IF k = 0 THEN 0 ELSE U(SumU(f, k - 1) + f[k - 1])

\* parse values from OTs: Sc_uint[i][c] = (int32_t lane 0 of Sc[i][c])
ParseSc(S) == [k \in DOMAIN S |-> [c \in Bit |-> Lane0Uint(S[k][c])]]

\* main: PRNG prng(sysRandomSeed()), sk.randomize(prng) (any key),
\* b_bar[i] = b[i] ^ sk[i], Sc_uint, ctr = 0, round = 0
KeyGen ==
    /\ pc = "keygen"
    /\ prngm' = [seed |-> seed, used |-> 0]
    /\ \E key \in [NIdx -> Bit] :
        /\ sk' = key
        /\ b_bar' = [i \in NIdx |-> Xor(b[i], key[i])]
    /\ Sc_uint' = ParseSc(Sc)
    /\ ctr' = 0 /\ round' = 0
    /\ pc' = "loop"
    /\ UNCHANGED <<confVars, sideVars, prng2, r1pc, s1pc, r2pc, s2pc, failed, seed, p1Vars, p2Vars, kkrtVars, roundVars, histVars>>

\* a loop that tests after its body (do ... while)
LoopCondAtLeastOnce(r) == r = 0 \/ r < num_rounds
\* a loop test that runs one round too many
LoopCondInclusive(r) == r <= num_rounds
\* round < num_rounds
LoopCond(r) == r < num_rounds

\* for (int round = 0; round < num_rounds; ...): the loop test; return 0 after
\* the last round
LoopTest ==
    /\ pc = "loop"
    /\ pc' = IF LoopCond(round) THEN "request" ELSE "done"
    /\ UNCHANGED <<confVars, sideVars, prngVars, r1pc, s1pc, r2pc, s2pc, failed, seed, p1Vars, p2Vars, kkrtVars, keyVars, loopVars, roundVars, histVars>>

\* ro.Update(t); ro.Update(x); ro.Final(dest): 2 * n bytes
RandomOracle(tt, xx) == [k \in 0 .. (2 * n - 1) |-> RObyte(tt, xx, k)]

\* a parse that takes byte 2i as the low byte
ParseALow(dest, i) == Mask(U(dest[2 * i + 1] * 256 + dest[2 * i]), q)
\* a[i] = ((high << 8) | low) & (q - 1), high = dest[2i], low = dest[2i + 1]
ParseA(dest, i) == Mask(U(dest[2 * i] * 256 + dest[2 * i + 1]), q)

\* an index with the stride of the other dimension
SlotIndexByTau(c, i) == (c * tau) + i
\* an index that forgets the slot
SlotIndexNoCtr(c, i) == i
\* the index of entry i of slot c of the phase one arrays
SlotIndex(c, i) == (c * n) + i

\* reads of the preprocessing arrays; an index past the end of an array reads
\* whatever lies there (one of the patterns g)
ScAt(k, g) == IF k \in DOMAIN Sc_uint THEN Sc_uint[k] ELSE [c \in Bit |-> Junk(g, k, c)]
RsAt(k, g) == IF k \in DOMAIN Rs_r THEN Rs_r[k] ELSE Junk(g, k, 1)
BprAt(c, g) == IF c \in DOMAIN bpr THEN bpr[c] ELSE Junk(g, c, 0)
RcAt(c, g) == IF c \in DOMAIN Rc_r THEN Rc_r[c] ELSE Junk(g, c, 1)
SsAt(c, k, g) == IF c \in DOMAIN Ss THEN Ss[c][k] ELSE Junk(g, c + k, 0)

\* a c_i that is not reduced mod q
ReqCUnmasked(e0i, pair, bbi) == U(e0i - pair[bbi])
\* uint c_i = (e_0[i] - Sc_uint[ctr * n + i][b_bar[i]]) & (q - 1)
ReqC(e0i, pair, bbi) == Mask(U(e0i - pair[bbi]), q)
\* an e_1 that leaves the mask out
ReqE1Unmasked(ai, ci, pair, bbi) == Mask(U(ai + ci), q)
\* e_1[i] = (a[i] + c_i + Sc_uint[ctr * n + i][1 - b_bar[i]]) & (q - 1)
ReqE1(ai, ci, pair, bbi) == Mask(U(ai + ci + pair[1 - bbi]), q)
\* c_sum += c_i over i, then c_sum & (q - 1)
ReqCSum(cs) == Mask(SumU(cs, n), q)
\* a bpr_bar with the subtraction the other way round
ReqBprBarSwapped(csum, choice) == U(Mask(U64(choice - Mask(csum, delta)), delta))
\* uint bpr_bar = ((c_sum & (delta - 1)) - bpr[ctr]) & (delta - 1), in u64
ReqBprBar(csum, choice) == U(Mask(U64(Mask(csum, delta) - choice), delta))

\* the preprocessing arrays each step of a round reads (Sc through its copy
\* Sc_uint): Request is the client's step, BlindEval the server's, Finalize
\* the client's
RequestReads == {"Sc", "b_bar", "bpr"}
\* a BlindEval that subtracts the receiver's block itself
BlindEvalReadsRc == {"Rs_r", "sk", "Ss", "Rc_r"}
BlindEvalReads == {"Rs_r", "sk", "Ss"}
FinalizeReads == {"Rc_r"}

\* the Request message (e_0, e_1, bpr_bar) and the client's c_sum, from the
\* input a, the slot's Sc_uint pairs, b_bar and the slot's bpr
RequestOf(av, pairs, bb, choice) ==
    LET e0 == [i \in NIdx |-> 0]
        cs == [i \in NIdx |-> ReqC(e0[i], pairs[i], bb[i])]
        csum == ReqCSum(cs)
    IN  [e_0 |-> e0,
         e_1 |-> [i \in NIdx |-> ReqE1(av[i], cs[i], pairs[i], bb[i])],
         c_sum |-> csum,
         bpr_bar |-> ReqBprBar(csum, choice)]

\* Request (Fig. 4): the seeds t and x, the random oracle, a, e_0, e_1, c_sum
\* and bpr_bar.  With ctr past the last slot the reads are out of bounds: the
\* run reads what lies there or is killed.
Request ==
    /\ pc = "request"
    /\ \E end \in (IF ctr < tau THEN {"blindeval"} ELSE {"blindeval", "killed"}) :
        LET tt == PrngI64(prngm.seed, prngm.used)
            xx == PrngI64(prngm.seed, prngm.used + 1)
            g == seed
            dest == RandomOracle(tt, xx)
            av == [i \in NIdx |-> ParseA(dest, i)]
            pairs == [i \in NIdx |-> ScAt(SlotIndex(ctr, i), g)]
            req == RequestOf(av, pairs, b_bar, BprAt(ctr, g))
        IN  /\ t' = tt /\ x' = xx
            /\ a' = av
            /\ e_0' = req.e_0 /\ e_1' = req.e_1
            /\ c_sum' = req.c_sum
            /\ bpr_bar' = req.bpr_bar
            /\ pc' = end
    /\ slots' = Append(slots, [round |-> round,
                               sc |-> {SlotIndex(ctr, i) : i \in NIdx},
                               bp |-> {ctr}, rs |-> {}, ss |-> {}, rc |-> {},
                               acc |-> {<<"client", arr>> : arr \in RequestReads}])
    /\ oob' = (oob \/ ~(ctr < tau))
    /\ prngm' = [prngm EXCEPT !.used = @ + 2]
    /\ UNCHANGED <<confVars, sideVars, prng2, r1pc, s1pc, r2pc, s2pc, failed, seed, p1Vars, p2Vars, kkrtVars, keyVars, loopVars, atil_sum, y, z, eval_z, trace>>

\* an atil that adds the receiver's block
AtilAdd(ei, rs) == Mask(U(ei + rs), q)
\* atil[i][c] = (e_c[i] - Rs_r_uint) & (q - 1)
Atil(ei, rs) == Mask(U(ei - rs), q)
\* atil_sum += atil[i][sk[i]] over i, then atil_sum & (q - 1)
AtilSum(e0, e1, rs, key) ==
    Mask(SumU([i \in NIdx |-> IF key[i] = 1 THEN Atil(e1[i], rs[i]) ELSE Atil(e0[i], rs[i])], n), q)
\* a column with the sign of bpr_bar wrong
SsColumnPlus(i, bbar) == Mask(U(i + bbar), delta)
\* the column of Ss[ctr] that goes into y[i]: (i - bpr_bar) & (delta - 1)
SsColumn(i, bbar) == Mask(U(i - bbar), delta)
\* a y that is not reduced mod p
YOfUnmasked(asum, i, ssu) == U(Shr(Mask(U(asum - i), q), lg_delta) + ssu)
\* y[i] = ((((atil_sum - i) & (q - 1)) >> lg_delta) + Ss_uint) & (p - 1)
YOf(asum, i, ssu) == Mask(U(Shr(Mask(U(asum - i), q), lg_delta) + ssu), p)

\* BlindEval (Fig. 4): atil, atil_sum and the vector y
BlindEval ==
    /\ pc = "blindeval"
    /\ LET g == seed
            rs == [i \in NIdx |-> Lane0Uint(RsAt(SlotIndex(ctr, i), g))]
            asum == AtilSum(e_0, e_1, rs, sk)
       IN  /\ atil_sum' = asum
           /\ y' = [i \in DeltaIdx |->
                       YOf(asum, i, Lane0Uint(SsAt(ctr, SsColumn(i, bpr_bar), g)))]
    /\ slots' = [slots EXCEPT ![Len(slots)] =
                    [@ EXCEPT !.rs = {SlotIndex(ctr, i) : i \in NIdx}, !.ss = {ctr},
                              !.acc = @ \cup {<<"server", arr>> : arr \in BlindEvalReads}]]
    /\ pc' = "finalize"
    /\ UNCHANGED <<confVars, sideVars, prngVars, r1pc, s1pc, r2pc, s2pc, failed, seed, p1Vars, p2Vars, kkrtVars, keyVars, loopVars, t, x, a, e_0, e_1, c_sum, bpr_bar, z, eval_z, oob, trace>>

\* a Finalize whose first subtraction stops at 0 instead of wrapping
FinalizeOfSaturating(yv, csum, rcu) ==
    LET y_c_sum_mod_delta == yv[Mask(csum, delta)]
        y_final == IF y_c_sum_mod_delta < rcu THEN 0 ELSE y_c_sum_mod_delta - rcu
        temp_val == Shr(U(csum - Mask(csum, delta)), lg_delta)
    IN  Mask(U(y_final - temp_val), p)
\* a Finalize that always takes y[0]
FinalizeOfFirst(yv, csum, rcu) ==
    Mask(U(U(yv[0] - rcu) - Shr(U(csum - Mask(csum, delta)), lg_delta)), p)
\* uint y_final = y[c_sum & (delta - 1)] - Rc_r_uint;
\* uint temp_val = (c_sum - (c_sum & (delta - 1))) >> lg_delta;
\* uint z = (y_final - temp_val) & (p - 1)
FinalizeOf(yv, csum, rcu) ==
    LET y_c_sum_mod_delta == yv[Mask(csum, delta)]
        y_final == U(y_c_sum_mod_delta - rcu)
        temp_val == Shr(U(csum - Mask(csum, delta)), lg_delta)
    IN  Mask(U(y_final - temp_val), p)

\* Finalize (Fig. 4)
Finalize ==
    /\ pc = "finalize"
    /\ z' = FinalizeOf(y, c_sum, Lane0Uint(RcAt(ctr, seed)))
    /\ slots' = [slots EXCEPT ![Len(slots)] =
                    [@ EXCEPT !.rc = {ctr},
                              !.acc = @ \cup {<<"client", arr>> : arr \in FinalizeReads}]]
    /\ pc' = "sanity"
    /\ UNCHANGED <<confVars, sideVars, prngVars, r1pc, s1pc, r2pc, s2pc, failed, seed, p1Vars, p2Vars, kkrtVars, keyVars, loopVars, t, x, a, e_0, e_1, c_sum, bpr_bar, atil_sum, y, eval_z, oob, trace>>

\* eval_z += a[i] for the i with sk[i]; eval_z = (eval_z >> lg_delta) & (p - 1)
EvalZ(av, key) ==
    Mask(Shr(SumU([i \in NIdx |-> IF key[i] = 1 THEN av[i] ELSE 0], n), lg_delta), p)

\* an assertion compiled out
AssertOff(ez, zz) == TRUE
\* assert(eval_z == z)
AssertHolds(ez, zz) == ez = zz
\* a round that forgets ctr++
NextCtrStuck(c) == c
\* ctr++
NextCtr(c) == c + 1

\* Sanity check: the reference value, the assertion, and the end of the
\* iteration (ctr++, free(dest), round++).  A failed assertion aborts the
\* process.
SanityCheck ==
    /\ pc = "sanity"
    /\ IF AssertHolds(EvalZ(a, sk), z)
       THEN /\ ctr' = NextCtr(ctr)
            /\ round' = round + 1
            /\ pc' = "loop"
            /\ NoRound
       ELSE /\ eval_z' = EvalZ(a, sk)
            /\ pc' = "aborted"
            /\ UNCHANGED <<ctr, round, t, x, a, e_0, e_1, c_sum, bpr_bar, atil_sum, y, z>>
    /\ UNCHANGED <<confVars, sideVars, prngVars, r1pc, s1pc, r2pc, s2pc, failed, seed, p1Vars, p2Vars, kkrtVars, keyVars, histVars>>

(* ------------------------------ specification ------------------------- *)

PhaseOne ==
    \/ P1RecvConnect \/ P1RecvBaseOt \/ P1RecvSetBaseOts \/ P1RecvTile
    \/ P1RecvExtend \/ P1RecvExtendFail \/ P1RecvFlush \/ P1RecvReport
    \/ P1SendConnect \/ P1SendBaseOt \/ P1SendSetBaseOts
    \/ P1SendExtend \/ P1SendExtendFail \/ P1SendFlush \/ P1SendReport

PhaseTwo ==
    \/ P2RecvConnect \/ P2RecvInit \/ P2RecvEncode \/ P2RecvCorrection
    \/ P2RecvCheck \/ P2RecvFlush \/ P2RecvFail \/ P2RecvReport
    \/ P2SendConnect \/ P2SendInit \/ P2SendRecvCorrection \/ P2SendEncode
    \/ P2SendCheck \/ P2SendFlush \/ P2SendFail \/ P2SendReport

Next ==
    \/ StartPhaseOne \/ PhaseOne \/ JoinPhaseOne
    \/ StartPhaseTwo \/ PhaseTwo \/ JoinPhaseTwo
    \/ KeyGen \/ LoopTest \/ Request \/ BlindEval \/ Finalize \/ SanityCheck

Spec == Init /\ [][Next]_vars

\* the parameters are inconsistent: num_rounds is larger than tau
InitCfg ==
    /\ num_rounds = tau + 1
    /\ InitCommon
    /\ ext = ExtIdle

SpecCfg == InitCfg /\ [][Next]_vars

\* the session of at most one round with every thread scheduled: main and the
\* role threads are ordinary OS threads, a step that can be taken is taken
InitFair ==
    /\ num_rounds \in 0 .. 1
    /\ InitCommon
    /\ ext = ExtIdle
SpecFair == InitFair /\ [][Next]_vars /\ WF_vars(Next)

(* ---------------------- the online phase on its own ------------------- *)

\* choice patterns b_n and keys sk of the online-only specification
BitPatterns ==
    {[i \in NIdx |-> i % 2], [i \in NIdx |-> (i + 1) % 2],
     [i \in NIdx |-> 0], [i \in NIdx |-> 1]}
ChoicePatterns == {[i \in NIdx |-> i % 2], [i \in NIdx |-> (i + 1) % 2]}

\* the first index of the last batch of phase two
LastBatch == ((tau - 1) \div step) * step

\* the calls of the four roles in a run without an error
IknpReceiveCalls ==
    <<Call("connect"), Call("baseOt"), Call("setBaseOts"), Call("tile"),
      Call("extend"), Call("flush"), Call("report")>>
IknpSendCalls ==
    <<Call("connect"), Call("baseOt"), Call("setBaseOts"),
      Call("extend"), Call("flush"), Call("report")>>
RECURSIVE KkrtReceiveBatches(_)
KkrtReceiveBatches(i) ==
    IF i >= tau THEN <<>>
    ELSE [j \in 1 .. BatchSize(i) |-> <<"encode", i + j - 1>>]
            \o <<<<"sendCorrection", BatchSize(i)>>>> \o KkrtReceiveBatches(i + BatchSize(i))
RECURSIVE KkrtSendBatches(_)
KkrtSendBatches(i) ==
    IF i >= tau THEN <<>>
    ELSE <<<<"recvCorrection", BatchSize(i)>>>>
            \o [j \in 1 .. BatchSize(i) |-> <<"encode", i + j - 1>>]
            \o KkrtSendBatches(i + BatchSize(i))
KkrtReceiveCalls ==
    <<Call("connect"), Call("init")>> \o KkrtReceiveBatches(0)
        \o <<Call("check"), Call("flush"), Call("report")>>
KkrtSendCalls ==
    <<Call("connect"), Call("init")>> \o KkrtSendBatches(0)
        \o <<Call("check"), Call("flush"), Call("report")>>

(* ---------------------- the preprocessing on its own ------------------ *)

InitPrep ==
    /\ num_rounds = tau
    /\ InitCommon
    /\ ext = ExtIdle

\* main up to the return of phase_2_thread.join()
NextPrep ==
    \/ StartPhaseOne \/ PhaseOne \/ JoinPhaseOne
    \/ StartPhaseTwo \/ PhaseTwo \/ JoinPhaseTwo

SpecPrep == InitPrep /\ [][NextPrep]_vars

\* the same with main and the role threads scheduled: a step that can be
\* taken is taken
SpecPrepFair == InitPrep /\ [][NextPrep]_vars /\ WF_vars(NextPrep)

(* ------------------------ phase two on its own ------------------------ *)

\* main after phase_one_iknp_thread.join(), phase one having run to its end
\* without an error: material seed s, choice pattern b_n
PhaseTwoStart(s, b_n) ==
    LET bv == TileAll([k \in P1Idx |-> 0], b_n, 0)
    IN  /\ pc = "alloc2"
        /\ r1pc = "ret" /\ s1pc = "ret" /\ r2pc = "idle" /\ s2pc = "idle"
        /\ failed = {}
        /\ seed = s
        /\ prng2 = [seed |-> 0, used |-> 0] /\ prngm = [seed |-> 0, used |-> 0]
        /\ b = bv /\ Rs_r = IknpReceive(s, bv) /\ Sc = IknpSend(s)
        /\ bpr = <<>> /\ Rc_r = <<>> /\ Ss = <<>>
        /\ ri = 0 /\ rmin = 0 /\ rj = 0
        /\ si = 0 /\ smin = 0 /\ sj = 0
        /\ corr = <<>>
        /\ sk = <<>> /\ b_bar = <<>> /\ Sc_uint = <<>>
        /\ ctr = 0 /\ round = 0
        /\ t = 0 /\ x = 0
        /\ a = <<>> /\ e_0 = <<>> /\ e_1 = <<>>
        /\ c_sum = 0 /\ bpr_bar = 0
        /\ atil_sum = 0 /\ y = <<>>
        /\ z = 0 /\ eval_z = 0
        /\ slots = <<>>
        /\ oob = FALSE
        /\ trace = [r \in Roles |->
                        CASE r = "p1r" -> IknpReceiveCalls
                          [] r = "p1s" -> IknpSendCalls
                          [] OTHER -> <<>>]
        /\ ext = ExtIdle
        /\ tampered = {}

InitKkrt ==
    /\ num_rounds = tau
    /\ \E s \in Seeds, b_n \in [NIdx -> Bit] : PhaseTwoStart(s, b_n)

NextKkrt ==
    \/ StartPhaseTwo
    \/ PhaseTwo
    \/ JoinPhaseTwo

SpecKkrt == InitKkrt /\ [][NextKkrt]_vars

\* main at the first loop test, after both preprocessing phases ran to their
\* end without an error: material seed s, choice pattern b_n, key, and the
\* phase-two receiver's PRNG seed ps
OnlineStart(s, b_n, key, ps) ==
    LET bv == TileAll([k \in P1Idx |-> 0], b_n, 0)
        choice(i) == Mask(Prng8(ps, i), delta)
    IN  /\ pc = "loop"
        /\ r1pc = "ret" /\ s1pc = "ret" /\ r2pc = "ret" /\ s2pc = "ret"
        /\ failed = {}
        /\ seed = s
        /\ prng2 = [seed |-> ps, used |-> tau + 1]
        /\ prngm = [seed |-> s, used |-> 0]
        /\ b = bv /\ Rs_r = IknpReceive(s, bv) /\ Sc = IknpSend(s)
        /\ bpr = [i \in TauIdx |-> choice(i)]
        /\ Rc_r = [i \in TauIdx |-> KkrtEncodeRecv(s, i, choice(i))]
        /\ Ss = [i \in TauIdx |-> KkrtEncodeSend(s, i)]
        /\ ri = tau /\ rmin = BatchSize(LastBatch) /\ rj = 0
        /\ si = tau /\ smin = BatchSize(LastBatch) /\ sj = BatchSize(LastBatch)
        /\ corr = <<>>
        /\ sk = key /\ b_bar = [i \in NIdx |-> Xor(bv[i], key[i])]
        /\ Sc_uint = ParseSc(IknpSend(s))
        /\ ctr = 0 /\ round = 0
        /\ t = 0 /\ x = 0
        /\ a = <<>> /\ e_0 = <<>> /\ e_1 = <<>>
        /\ c_sum = 0 /\ bpr_bar = 0
        /\ atil_sum = 0 /\ y = <<>>
        /\ z = 0 /\ eval_z = 0
        /\ slots = <<>>
        /\ oob = FALSE
        /\ trace = [r \in Roles |->
                        CASE r = "p1r" -> IknpReceiveCalls
                          [] r = "p1s" -> IknpSendCalls
                          [] r = "p2r" -> KkrtReceiveCalls
                          [] r = "p2s" -> KkrtSendCalls]
        /\ ext = ExtIdle
        /\ tampered = {}

InitOnline ==
    /\ num_rounds = tau
    /\ \E s \in Seeds, b_n \in ChoicePatterns, key \in BitPatterns :
        OnlineStart(s, b_n, key, 0)

NextOnline ==
    \/ LoopTest
    \/ Request
    \/ BlindEval
    \/ Finalize
    \/ SanityCheck

SpecOnline == InitOnline /\ [][NextOnline]_vars

(* ------------- the online phase over a corrupted row Ss[0] ------------ *)

\* width of a byte (scaled like lg_p: in the source p - 1 masks one byte)
ByteBits == lg_p
Byte == 2 ^ ByteBits
\* bytes of lane 0 of a block, and of the block's four lanes
LaneBytes == WordBits \div ByteBits
BlockBytes == 4 * LaneBytes
\* lane 0 of a block after byte bi of the block took the value it had plus v;
\* the bytes of lanes 1 to 3 are not part of lane 0
WithByte(blk, bi, v) ==
    IF bi < LaneBytes
    THEN LET w == Byte ^ bi
             old == (blk \div w) % Byte
         IN  blk - old * w + ((old + v) % Byte) * w
    ELSE blk

\* before round 0, one byte of one block of row Ss[0] is overwritten with
\* another value (from outside the program: the code has no such step)
CorruptSs ==
    /\ pc = "loop" /\ round = 0
    /\ tampered = {}
    /\ \E k \in DeltaIdx, bi \in 0 .. (BlockBytes - 1), v \in 1 .. (Byte - 1) :
        /\ Ss' = [Ss EXCEPT ![0][k] = WithByte(@, bi, v)]
        /\ tampered' = {<<k, bi>>}
    /\ UNCHANGED <<confVars, ext, ctlVars, prngVars, p1Vars, bpr, Rc_r, kkrtVars, keyVars, loopVars, roundVars, histVars>>

NextCorrupt ==
    \/ CorruptSs
    \/ LoopTest
    \/ Request
    \/ BlindEval
    \/ Finalize
    \/ SanityCheck

SpecCorrupt == InitOnline /\ [][NextCorrupt]_vars

(* --------------------------- Finalize on its own ---------------------- *)

\* lane values around 0, around the sign bit and at the top of the word
LaneSamples ==
    (0 .. q) \cup ((Word \div 2 - 2) .. (Word \div 2 + 2)) \cup ((Word - q) .. (Word - 1))

\* main before Finalize of round 0, after a preprocessing without an error:
\* the client's c_sum is cs, the entry of y it will read is v, and lane 0 of
\* Rc_r[0] is lane (any block is a possible output of the KKRT extension)
FinalizeStart(cs, v, lane) ==
    LET bv == TileAll([k \in P1Idx |-> 0], [i \in NIdx |-> i % 2], 0)
    IN  /\ pc = "finalize"
        /\ r1pc = "ret" /\ s1pc = "ret" /\ r2pc = "ret" /\ s2pc = "ret"
        /\ failed = {}
        /\ seed = 0
        /\ prng2 = [seed |-> 0, used |-> tau + 1]
        /\ prngm = [seed |-> 0, used |-> 2]
        /\ b = bv /\ Rs_r = IknpReceive(0, bv) /\ Sc = IknpSend(0)
        /\ bpr = [i \in TauIdx |-> Mask(Prng8(0, i), delta)]
        /\ Rc_r = [i \in TauIdx |-> IF i = 0 THEN lane ELSE 0]
        /\ Ss = [i \in TauIdx |-> KkrtEncodeSend(0, i)]
        /\ ri = tau /\ rmin = BatchSize(LastBatch) /\ rj = 0
        /\ si = tau /\ smin = BatchSize(LastBatch) /\ sj = BatchSize(LastBatch)
        /\ corr = <<>>
        /\ sk = [i \in NIdx |-> 1] /\ b_bar = [i \in NIdx |-> Xor(bv[i], 1)]
        /\ Sc_uint = ParseSc(IknpSend(0))
        /\ ctr = 0 /\ round = 0
        /\ t = PrngI64(0, 0) /\ x = PrngI64(0, 1)
        /\ a = [i \in NIdx |-> 0]
        /\ e_0 = [i \in NIdx |-> 0] /\ e_1 = [i \in NIdx |-> 0]
        /\ c_sum = cs /\ bpr_bar = 0
        /\ atil_sum = 0
        /\ y = [k \in DeltaIdx |-> IF k = Mask(cs, delta) THEN v ELSE 0]
        /\ z = 0 /\ eval_z = 0
        /\ slots = <<[round |-> 0, sc |-> {SlotIndex(0, i) : i \in NIdx},
                      bp |-> {0}, rs |-> {SlotIndex(0, i) : i \in NIdx},
                      ss |-> {0}, rc |-> {},
                      acc |-> {<<"client", arr>> : arr \in RequestReads}
                                \cup {<<"server", arr>> : arr \in BlindEvalReads}]>>
        /\ oob = FALSE
        /\ trace = [r \in Roles |->
                        CASE r = "p1r" -> IknpReceiveCalls
                          [] r = "p1s" -> IknpSendCalls
                          [] r = "p2r" -> KkrtReceiveCalls
                          [] r = "p2s" -> KkrtSendCalls]
        /\ ext = ExtIdle
        /\ tampered = {}

InitFinalize ==
    /\ num_rounds = tau
    /\ \E cs \in 0 .. (q - 1), v \in 0 .. (p - 1), lane \in LaneSamples :
        FinalizeStart(cs, v, lane)

SpecFinalize == InitFinalize /\ [][Finalize]_vars

(* ------ benchmark_alt_preproc: extension of the Silent OT (n) results ---- *)

StretchIdx == 0 .. (n * kappa - 1)

\* an index that lays the results out by OT instead of by repetition
StretchIndexByOt(j, i) == i * kappa + j
\* j * n + i
StretchIndex(j, i) == j * n + i

\* after phase_one_sot_n_thread.join(): the n Silent OT results (those of a
\* run that succeeded, or buffers a failed run left unwritten) and the three
\* buffers of the extension (b zeroed, the AlignedUnVectors unwritten)
StretchStart(s, bn, ok) ==
    ext = [pc |-> "outer", i |-> 0, j |-> 0,
           b_n |-> bn,
           Sc_n |-> [i \in NIdx |-> [c \in Bit |-> Blk1(s, i, c)]],
           Rs_r_n |-> [i \in NIdx |-> IF ok THEN Blk1(s, i, bn[i]) ELSE Junk(s, i, 0)],
           prng_msg_0 |-> [seed |-> 0, used |-> 0],
           prng_msg_1 |-> [seed |-> 0, used |-> 0],
           prng_res |-> [seed |-> 0, used |-> 0],
           b |-> [k \in StretchIdx |-> 0],
           Sc |-> [k \in StretchIdx |-> [c \in Bit |-> Junk(s, k + 1, c)]],
           Rs_r |-> [k \in StretchIdx |-> Junk(s, k, 1)]]

InitStretch ==
    /\ num_rounds = tau
    /\ InitCommon
    /\ \E s \in Seeds, bn \in [NIdx -> Bit], ok \in BOOLEAN : StretchStart(s, bn, ok)

StretchFrame == UNCHANGED <<confVars, tampered, ctlVars, prngVars, p1Vars, p2Vars, kkrtVars, keyVars, loopVars, roundVars, histVars>>

\* for (int i = 0; i < n; i++): the test holds; the three PRNGs are seeded
\* and the inner loop is entered (kappa > 0)
StretchOuter ==
    /\ ext.pc = "outer" /\ ext.i < n
    /\ ext' = [ext EXCEPT !.prng_msg_0 = [seed |-> ext.Sc_n[ext.i][0], used |-> 0],
                          !.prng_msg_1 = [seed |-> ext.Sc_n[ext.i][1], used |-> 0],
                          !.prng_res = [seed |-> ext.Rs_r_n[ext.i], used |-> 0],
                          !.j = 0,
                          !.pc = "inner"]
    /\ StretchFrame

\* one iteration of for (int j = 0; j < kappa; j++), its j++ and test, and
\* after the last one the i++ of the outer loop
StretchInner ==
    /\ ext.pc = "inner"
    /\ LET k == StretchIndex(ext.j, ext.i)
           last == ~(ext.j + 1 < kappa)
       IN  ext' = [ext EXCEPT
                    !.b[k] = ext.b_n[ext.i],
                    !.Sc[k] = [c \in Bit |->
                                IF c = 0 THEN Prg(ext.prng_msg_0.seed, ext.prng_msg_0.used)
                                ELSE Prg(ext.prng_msg_1.seed, ext.prng_msg_1.used)],
                    !.Rs_r[k] = Prg(ext.prng_res.seed, ext.prng_res.used),
                    !.prng_msg_0.used = @ + 1,
                    !.prng_msg_1.used = @ + 1,
                    !.prng_res.used = @ + 1,
                    !.j = @ + 1,
                    !.i = IF last THEN @ + 1 ELSE @,
                    !.pc = IF last THEN "outer" ELSE "inner"]
    /\ StretchFrame

\* the test of the outer loop fails: the extension is over
StretchEnd ==
    /\ ext.pc = "outer" /\ ~(ext.i < n)
    /\ ext' = [ext EXCEPT !.pc = "done"]
    /\ StretchFrame

NextStretch ==
    \/ StretchOuter
    \/ StretchInner
    \/ StretchEnd

SpecStretch == InitStretch /\ [][NextStretch]_vars

(* ------------------------------ properties ---------------------------- *)

OnlinePcs == {"loop", "request", "blindeval", "finalize", "sanity", "done", "aborted", "killed"}
RoundPcs == {"blindeval", "finalize", "sanity"}

\* phase-one OT correctness: Rs_r[k] = Sc[k][b[k]]
PhaseOneCorrect == \A k \in P1Idx : Rs_r[k] = Sc[k][b[k]]
\* tiling: b[j * n + i] = b[i]
Tiled == \A j \in TauIdx, i \in NIdx : b[j * n + i] = b[i]
\* b_bar[i] = b[i] XOR sk[i]
BbarDerived == \A i \in NIdx : b_bar[i] = Xor(b[i], sk[i])
\* phase-two OT correctness of slot c: Ss[c][bpr[c]] = Rc_r[c]
PhaseTwoCorrect(c) == c \in TauIdx /\ Ss[c][bpr[c]] = Rc_r[c]
MaterialCorrect ==
    /\ q = delta * p
    /\ PhaseOneCorrect /\ Tiled /\ BbarDerived /\ PhaseTwoCorrect(ctr)

\* the exact sum of the a[i] with sk[i] = 1
RECURSIVE KeyedSum(_, _, _)
KeyedSum(av, key, k) ==
    IF k = 0 THEN 0 ELSE KeyedSum(av, key, k - 1) + (IF key[k - 1] = 1 THEN av[k - 1] ELSE 0)
\* (floor(sum of a[i] over sk[i] = 1) / delta) mod p
LwrValue == (KeyedSum(a, sk, n) \div delta) % p

\* C1: with preprocessing material that satisfies phase-one OT correctness,
\* tiling, b_bar = b XOR sk and phase-two OT correctness of the slot, and
\* q = delta * p, the z that Request, BlindEval and Finalize produce is
\* (floor(sum of a[i] over sk[i] = 1) / delta) mod p, and the sanity assertion
\* of the round does not fail.
C1_OprfCorrect ==
    (pc \in {"sanity", "aborted"} /\ MaterialCorrect) =>
        (z = LwrValue /\ pc # "aborted")

C1_Witness ==
    /\ pc = "sanity" /\ MaterialCorrect
    /\ ctr = 1 /\ z = LwrValue /\ z # 0
    /\ \E i \in NIdx : sk[i] = 1 /\ b[i] = 0
    /\ \E i \in NIdx : Sc[SlotIndex(ctr, i)][b_bar[i]] >= Word \div 2

\* C2: if an extender step has failed in some role of some preprocessing
\* phase, main never enters the online loop and no z is computed.
C2_FailureAborts == failed # {} => pc \notin OnlinePcs

\* C3: in every state of a session, 0 <= ctr <= num_rounds <= tau.
C3_CounterBound == 0 <= ctr /\ ctr <= num_rounds /\ num_rounds <= tau

C3_Witness == pc = "loop" /\ ctr = tau /\ ctr = num_rounds

\* C4: ctr changes only at the end of a round whose sanity check passed, by
\* one, together with the round number; a round whose sanity assertion fails
\* leaves ctr alone and ends the process: nothing runs after it.
C4_CounterDiscipline ==
    [][ /\ ctr' # ctr =>
            (pc = "sanity" /\ EvalZ(a, sk) = z /\ ctr' = ctr + 1 /\ round' = round + 1)
        /\ (pc \in OnlinePcs /\ round' # round) => ctr' # ctr
        /\ (pc = "sanity" /\ EvalZ(a, sk) # z) => (pc' = "aborted" /\ ctr' = ctr)
        /\ pc = "aborted" => (pc' = "aborted" /\ ctr' = ctr /\ slots' = slots)
      ]_vars

C4_Witness == pc = "aborted" /\ ctr = 1 /\ Len(slots) = 2 /\ eval_z # z

\* C5: ctr never decreases, grows by exactly one with every round that
\* succeeds, and equals num_rounds when the session ends having run every
\* round.
C5_CounterMonotone ==
    /\ [](pc = "done" => ctr = num_rounds)
    /\ [][ctr' >= ctr /\ (round' = round + 1 => ctr' = ctr + 1)]_vars

C5_Witness == pc = "done" /\ ctr = num_rounds /\ ctr >= 2

\* the phase one indices of slot r
SlotEntries(r) == {r * n + i : i \in NIdx}

\* C6: the r-th round reads slot r and nothing else (entries r*n .. r*n+n-1 of
\* Sc_uint and Rs_r, entry r of bpr, Rc_r and Ss), and no two rounds read a
\* common entry.
C6_OneTimeSlots ==
    /\ \A r \in 1 .. Len(slots) :
        /\ slots[r].round = r - 1
        /\ slots[r].sc = SlotEntries(r - 1) /\ slots[r].bp = {r - 1}
        /\ slots[r].rs \in {{}, SlotEntries(r - 1)}
        /\ slots[r].ss \in {{}, {r - 1}}
        /\ slots[r].rc \in {{}, {r - 1}}
    /\ \A r1, r2 \in 1 .. Len(slots) :
        r1 # r2 =>
            /\ slots[r1].sc \cap slots[r2].sc = {}
            /\ slots[r1].rs \cap slots[r2].rs = {}
            /\ slots[r1].bp \cap slots[r2].bp = {}
            /\ slots[r1].ss \cap slots[r2].ss = {}
            /\ slots[r1].rc \cap slots[r2].rc = {}

C6_Witness ==
    /\ pc = "sanity" /\ Len(slots) = 2
    /\ slots[2].rs = SlotEntries(1) /\ slots[2].rc = {1}

\* the blocks the key holder did not choose, by their low lg_q bits
HiddenBlocks == [NIdx -> 0 .. (q - 1)]
\* the Sc_uint pairs of slot ctr that agree with the key holder's view: the
\* chosen block is Rs_r, the other one is hidden[i]
ViewPairs(hidden) ==
    [i \in NIdx |->
        LET k == SlotIndex(ctr, i) IN
        [c \in Bit |-> Lane0Uint(IF c = b[k] THEN Rs_r[k] ELSE hidden[i])]]
\* the Request messages (e_0, e_1, bpr_bar) that input av can produce in slot ctr
RequestMessages(av) ==
    {LET req == RequestOf(av, ViewPairs(hidden), b_bar, choice)
     IN  <<req.e_0, req.e_1, req.bpr_bar>> :
        hidden \in HiddenBlocks, choice \in DeltaIdx}
\* every message with e_0 = 0
MessageSpace == {[i \in NIdx |-> 0]} \X [NIdx -> 0 .. (q - 1)] \X DeltaIdx

\* C7: for the view of the key holder (sk, b, Rs_r, Ss) in a slot, the set of
\* Request messages (e_0, e_1, bpr_bar) over all unchosen blocks and all
\* choices bpr[ctr] is the whole message space whatever the input a is, the
\* same set for every a; the message that was sent is one of them.
C7_InputPrivacy ==
    pc = "blindeval" =>
        LET possible == RequestMessages(a)
        IN  /\ <<e_0, e_1, bpr_bar>> \in possible
            /\ possible = MessageSpace

C7_Witness ==
    /\ pc = "blindeval" /\ ctr = 1
    /\ \E i \in NIdx : sk[i] = 0 /\ a[i] # 0
    /\ \E i \in NIdx : sk[i] = 1
    /\ RequestMessages(a) = MessageSpace

\* C8: with num_rounds > tau the program refuses at startup: no preprocessing
\* and no round runs, and no index past slot tau - 1 is used.
C8_ConfigRefused == num_rounds > tau => (pc = "start" /\ ~oob)

\* C10: once the phase-one receiver has filled the choice vector,
\* b[j * n + i] = b[i] for all j < tau and i < n, and the b_bar of the online
\* phase is the b_bar of every slot.
C10_Tiling ==
    /\ r1pc \in {"extend", "flush", "report", "ret"} => Tiled
    /\ pc \in OnlinePcs \ {"loop"} \/ (pc = "loop" /\ sk # <<>>) =>
        \A j \in TauIdx, i \in NIdx : b_bar[i] = Xor(b[j * n + i], sk[i])

C10_Witness ==
    /\ pc = "request" /\ ctr = 1
    /\ b[0] = 1 /\ b[1] = 0 /\ b[n] = 1 /\ b[n + 1] = 0
    /\ b_bar[0] = 0


(* ------------------------- the calls of the roles ---------------------- *)

\* the positions of a role's calls
Steps(r) == 1 .. Len(trace[r])
\* the role's k-th call has this name
Named(r, k, name) == trace[r][k][1] = name
\* the role has made a call of this name
Made(r, name) == \E k \in Steps(r) : Named(r, k, name)
\* the arguments of the role's calls of this name, in order
ArgsOf(r, name) == [k \in 1 .. Len(SelectSeq(trace[r], LAMBDA c : c[1] = name)) |->
                        SelectSeq(trace[r], LAMBDA c : c[1] = name)[k][2]]

\* C11: in every preprocessing function, a role whose extender raised an error
\* closes its socket after the error is logged and before it goes on to the
\* byte report.
C11_ClosedOnError ==
    \A r \in Roles : \A k \in Steps(r) :
        Named(r, k, "error") /\ Made(r, "report") =>
            \E m \in Steps(r) :
                /\ m > k
                /\ Named(r, m, "close")
                /\ \A m2 \in 1 .. m : ~Named(r, m2, "report")

\* the one byte of row Ss[0] that round 0 reads: the low byte of lane 0 of
\* column bpr[0]
UsedByte == <<bpr[0], 0>>

\* C12 (as stated): after a byte of row Ss[0] was corrupted before round 0,
\* round 0 is never passed: its assertion fails and the process does not
\* return 0.
C12_CorruptionAborts ==
    tampered # {} => round = 0 /\ pc # "done"

\* C12 (amended): after the low byte of lane 0 of Ss[0][bpr[0]] was corrupted
\* before round 0, round 0 is never passed (its assertion fails); after any
\* other byte of the row was corrupted, no assertion fails.
C12_UsedByteAborts ==
    /\ tampered = {UsedByte} => round = 0 /\ pc # "done"
    /\ tampered # {} /\ tampered # {UsedByte} => pc # "aborted"

\* the byte round 0 reads was corrupted and the assertion of round 0 failed
C12_Witness ==
    /\ tampered = {UsedByte}
    /\ pc = "aborted" /\ round = 0
    /\ z # EvalZ(a, sk)

\* with num_rounds = 0 the session never enters a round: no Request, BlindEval
\* or Finalize, no slot is read, ctr stays 0, and main reaches its return
\* only after both phases of the preprocessing have returned
ZeroRoundsSafe ==
    /\ pc \notin {"request", "blindeval", "finalize", "sanity", "aborted", "killed"}
    /\ slots = <<>> /\ ~oob
    /\ ctr = 0 /\ round = 0
    /\ a = <<>> /\ y = <<>> /\ z = 0
    /\ pc = "done" =>
        /\ r1pc = "ret" /\ s1pc = "ret" /\ r2pc = "ret" /\ s2pc = "ret"
        /\ \A r \in Roles : Made(r, "report")

\* C13: with num_rounds = 0 the preprocessing completes, no Request, BlindEval
\* or Finalize is ever executed, ctr stays 0, and the program reaches return 0.
C13_ZeroRounds ==
    /\ [](num_rounds = 0 => ZeroRoundsSafe)
    /\ (num_rounds = 0) ~> (pc = "done" /\ ctr = 0)

\* a session of zero rounds has returned 0 after a complete preprocessing
C13_Witness ==
    /\ num_rounds = 0 /\ pc = "done" /\ ctr = 0
    /\ failed = {}
    /\ trace["p2r"] = KkrtReceiveCalls /\ trace["p2s"] = KkrtSendCalls
    /\ trace["p1r"] = IknpReceiveCalls /\ trace["p1s"] = IknpSendCalls

\* the accesses of the rounds so far: <<role, array>>
Accesses == UNION {slots[k].acc : k \in 1 .. Len(slots)}

\* C14 (as stated): in the online phase the client steps (Request, Finalize)
\* access only b, Rs_r, sk, b_bar, bpr and Rc_r, the server step (BlindEval)
\* only Sc and Ss.
C14_TableOwnership ==
    \A c \in Accesses :
        /\ c[1] = "client" => c[2] \in {"b", "Rs_r", "sk", "b_bar", "bpr", "Rc_r"}
        /\ c[1] = "server" => c[2] \in {"Sc", "Ss"}

\* C14 (amended): in the online phase the client steps access only Sc, b_bar,
\* bpr and Rc_r, the server step only Rs_r, sk and Ss; no array is accessed
\* by both roles.
C14_RoleExclusive ==
    /\ \A c \in Accesses :
        /\ c[1] = "client" => c[2] \in {"Sc", "b_bar", "bpr", "Rc_r"}
        /\ c[1] = "server" => c[2] \in {"Rs_r", "sk", "Ss"}
    /\ \A c, d \in Accesses : c[2] = d[2] => c[1] = d[1]

\* a round has run its three steps: both roles have accessed their arrays
C14_Witness ==
    /\ pc = "sanity"
    /\ \E c, d \in Accesses : c[1] = "client" /\ d[1] = "server"
    /\ slots[Len(slots)].rc # {} /\ slots[Len(slots)].ss # {}

\* the role's calls with one of these names, in order
Only(r, names) == SelectSeq(trace[r], LAMBDA c : c[1] \in names)
IsPrefix(u, v) == Len(u) <= Len(v) /\ \A k \in 1 .. Len(u) : u[k] = v[k]
RECURSIVE SumSeq(_)
SumSeq(u) == IF u = <<>> THEN 0 ELSE Head(u) + SumSeq(Tail(u))

\* the batches of a run over tau slots: their number, first slot and size
NumBatches == (tau + step - 1) \div step
FirstOf(k) == (k - 1) * step
SizeOf(k) == IF k * step <= tau THEN step ELSE tau - (k - 1) * step
EncodesOf(k) == [j \in 1 .. SizeOf(k) |-> <<"encode", FirstOf(k) + j - 1>>]
\* the receiver encodes a batch, then sends its correction
RECURSIVE ReceiverOrder(_)
ReceiverOrder(k) ==
    IF k > NumBatches THEN <<>>
    ELSE EncodesOf(k) \o <<<<"sendCorrection", SizeOf(k)>>>> \o ReceiverOrder(k + 1)
\* the sender receives the correction of a batch, then encodes the batch
RECURSIVE SenderOrder(_)
SenderOrder(k) ==
    IF k > NumBatches THEN <<>>
    ELSE <<<<"recvCorrection", SizeOf(k)>>>> \o EncodesOf(k) \o SenderOrder(k + 1)

\* C15: the KKRT receiver encodes min(tau - i, step) slots and then sends one
\* correction of that size, the sender receives a correction of the same size
\* before it encodes the batch; the two sequences of batch sizes agree and, at
\* the check, sum to tau (also when step does not divide tau).
C15_Batching ==
    LET sent == ArgsOf("p2r", "sendCorrection")
        rcvd == ArgsOf("p2s", "recvCorrection")
    IN  /\ IsPrefix(Only("p2r", {"encode", "sendCorrection"}), ReceiverOrder(1))
        /\ IsPrefix(Only("p2s", {"encode", "recvCorrection"}), SenderOrder(1))
        /\ IsPrefix(rcvd, sent)
        /\ Len(sent) = Len(rcvd) + Len(corr)
        /\ Made("p2r", "check") => SumSeq(sent) = tau
        /\ Made("p2s", "check") => SumSeq(rcvd) = tau /\ rcvd = sent

\* both roles are at their check after batches of different sizes, the last
\* one shorter than step
C15_Witness ==
    /\ Made("p2r", "check") /\ Made("p2s", "check")
    /\ tau % step # 0
    /\ ArgsOf("p2s", "recvCorrection") = <<step, tau % step>>
    /\ ArgsOf("p2r", "sendCorrection") = <<step, tau % step>>

\* the role's calls with one of these names before its k-th call, in order
OnlyBefore(r, k, names) ==
    SelectSeq(SubSeq(trace[r], 1, k - 1), LAMBDA c : c[1] \in names)
AllSlots == [j \in 1 .. tau |-> <<"encode", j - 1>>]
Corrections == {"sendCorrection", "recvCorrection"}

\* C16: a KKRT role issues check only after it encoded every slot 0 .. tau-1
\* exactly once and exchanged all its corrections; the flush comes right after
\* the check, and after the check the role encodes nothing and exchanges no
\* correction.
C16_CheckLast ==
    \A r \in {"p2r", "p2s"} : \A k \in Steps(r) :
        /\ Named(r, k, "check") =>
            /\ OnlyBefore(r, k, {"encode"}) = AllSlots
            /\ Len(OnlyBefore(r, k, Corrections)) = NumBatches
            /\ SumSeq([m \in 1 .. NumBatches |-> OnlyBefore(r, k, Corrections)[m][2]]) = tau
            /\ r = "p2s" => corr = <<>>
            /\ \A m \in Steps(r) :
                m > k => trace[r][m][1] \in {"flush", "error", "report"}
            /\ Made(r, "report") /\ ~Made(r, "error") => Named(r, k + 1, "flush")
        /\ Named(r, k, "flush") => k > 1 /\ Named(r, k - 1, "check")

\* both roles have checked and flushed after the batches of a tau that step
\* does not divide
C16_Witness ==
    /\ r2pc = "ret" /\ s2pc = "ret"
    /\ failed = {}
    /\ NumBatches > 1 /\ tau % step # 0
    /\ \A r \in {"p2r", "p2s"} : Made(r, "check") /\ Made(r, "flush")

\* the calls that are part of an extension
ExtensionCalls == {"extend", "encode", "sendCorrection", "recvCorrection", "check"}
\* the role made a call with one of these names before its k-th call
Earlier(r, k, names) == \E m \in 1 .. (k - 1) : trace[r][m][1] \in names

\* C17: every role of every facade runs the base-OT handshake, hands its
\* output to the extender, runs the extension, then flushes and reports (the
\* KKRT extender does the first two inside init): no extension call before
\* the base OTs are set, and no report that a flush has not preceded.
C17_FacadeOrder ==
    \A r \in Roles : \A k \in Steps(r) :
        /\ Named(r, k, "setBaseOts") => Earlier(r, k, {"baseOt"})
        /\ trace[r][k][1] \in ExtensionCalls => Earlier(r, k, {"setBaseOts", "init"})
        /\ Named(r, k, "flush") => Earlier(r, k, ExtensionCalls)
        /\ Named(r, k, "report") => Earlier(r, k, {"flush"})

\* C18: each phase starts its two roles together (one on a spawned thread,
\* its peer on the calling thread); phase two does not start before both
\* phase-one roles have returned, and the online phase (sk, b_bar, the first
\* Request) does not start before both phase-two roles have returned.
C18_PhaseJoins ==
    /\ (r1pc = "idle") = (s1pc = "idle")
    /\ (r2pc = "idle") = (s2pc = "idle")
    /\ (pc \in {"alloc2", "p2", "keygen"} \cup OnlinePcs
            \/ r2pc # "idle" \/ s2pc # "idle" \/ bpr # <<>>
            \/ trace["p2r"] # <<>> \/ trace["p2s"] # <<>>)
        => r1pc = "ret" /\ s1pc = "ret"
    /\ (pc \in {"keygen"} \cup OnlinePcs
            \/ sk # <<>> \/ b_bar # <<>> \/ Sc_uint # <<>> \/ slots # <<>>)
        => r2pc = "ret" /\ s2pc = "ret"

\* the first Request was made after both phases and their four roles returned
C18_Witness ==
    /\ pc = "blindeval" /\ round = 0
    /\ sk # <<>> /\ b_bar # <<>>
    /\ \A r \in Roles : Made(r, "report")

\* the little-endian 16-bit integer of bytes 2i and 2i + 1 (byte 2i low)
LittleEndian16(dest, i) == dest[2 * i] + 256 * dest[2 * i + 1]

\* C19 (as stated): in a round, a[i] is the little-endian 16-bit integer of bytes 2i and
\* 2i + 1 of the random oracle's output for (t, x), reduced mod q, and lies
\* in [0, q).
C19_LittleEndian ==
    pc \in RoundPcs =>
        \A i \in NIdx :
            /\ a[i] \in 0 .. (q - 1)
            /\ a[i] = LittleEndian16(RandomOracle(t, x), i) % q

\* the big-endian 16-bit integer of bytes 2i and 2i + 1 (byte 2i high)
BigEndian16(dest, i) == 256 * dest[2 * i] + dest[2 * i + 1]

\* C19 (amended): in a round, a[i] is the big-endian 16-bit integer of bytes
\* 2i and 2i + 1 of the random oracle's output for (t, x), reduced mod q, and
\* lies in [0, q).
C19_BigEndian ==
    pc \in RoundPcs =>
        \A i \in NIdx :
            /\ a[i] \in 0 .. (q - 1)
            /\ a[i] = BigEndian16(RandomOracle(t, x), i) % q

\* a round whose oracle output gives different values in the two byte orders
C19_Witness ==
    /\ pc \in RoundPcs
    /\ \E i \in NIdx :
        /\ a[i] = BigEndian16(RandomOracle(t, x), i) % q
        /\ a[i] # LittleEndian16(RandomOracle(t, x), i) % q

\* the n Silent OT results are correct: the receiver holds the chosen side
SilentCorrect == \A i \in NIdx : ext.Rs_r_n[i] = ext.Sc_n[i][ext.b_n[i]]

\* C20: if the n Silent OT results are correct, then after the extension, for
\* every j < kappa and i < n, b[j*n+i] = b_n[i] and Rs_r[j*n+i] =
\* Sc[j*n+i][b[j*n+i]], the blocks of repetition j being draw j of the PRGs
\* seeded with the results of OT i.
C20_StretchCorrect ==
    ext.pc = "done" /\ SilentCorrect =>
        \A j \in 0 .. (kappa - 1), i \in NIdx :
            /\ ext.b[j * n + i] = ext.b_n[i]
            /\ ext.Rs_r[j * n + i] = ext.Sc[j * n + i][ext.b[j * n + i]]
            /\ \A c \in Bit : ext.Sc[j * n + i][c] = Prg(ext.Sc_n[i][c], j)
            /\ ext.Rs_r[j * n + i] = Prg(ext.Rs_r_n[i], j)

\* the extension of correct results is over: the pattern has both bits, the
\* two sides of an extended OT differ and its repetitions differ
C20_Witness ==
    /\ ext.pc = "done" /\ SilentCorrect
    /\ ext.b_n[0] # ext.b_n[1]
    /\ \A k \in StretchIdx : ext.Sc[k][0] # ext.Sc[k][1]
    /\ ext.Rs_r[StretchIndex(0, 0)] # ext.Rs_r[StretchIndex(1, 0)]

\* the client's c_i of the current round, from the slot's sender blocks:
\* (e_0[i] - lane 0 of Sc[ctr * n + i][b_bar[i]]) mod q, with e_0[i] = 0
ClientC(i) == (0 - Lane0Uint(Sc[ctr * n + i][b_bar[i]])) % q
RECURSIVE SumTo(_, _)
SumTo(f, k) == IF k = 0 THEN 0 ELSE SumTo(f, k - 1) + f[k - 1]
\* the term of OT i the server's key selects: (e_sk[i][i] - lane 0 of Rs_r) mod q
ServerTerm(i) ==
    ((IF sk[i] = 1 THEN e_1[i] ELSE e_0[i]) - Lane0Uint(Rs_r[ctr * n + i])) % q

\* C21: under phase-one OT correctness, tiling and b_bar = b XOR sk, after
\* BlindEval the term selected by sk[i] is c_i when sk[i] = 0 and a[i] + c_i
\* (mod q) when sk[i] = 1, and atil_sum is the sum of the c_i plus the sum of
\* the a[i] with sk[i] = 1 (mod q).
C21_SumIdentity ==
    pc \in {"finalize", "sanity"} /\ ctr < tau
        /\ PhaseOneCorrect /\ Tiled /\ BbarDerived =>
            /\ \A i \in NIdx :
                ServerTerm(i) = (IF sk[i] = 1 THEN (a[i] + ClientC(i)) % q ELSE ClientC(i))
            /\ atil_sum = (SumTo([i \in NIdx |-> ClientC(i)], n) + KeyedSum(a, sk, n)) % q

\* BlindEval has run on correct material with a key that has both bits and
\* a nonzero keyed sum
C21_Witness ==
    /\ pc = "finalize" /\ ctr < tau
    /\ PhaseOneCorrect /\ Tiled /\ BbarDerived
    /\ \E i, k \in NIdx : sk[i] = 0 /\ sk[k] = 1 /\ a[k] # 0 /\ ClientC(i) # 0
    /\ atil_sum # SumTo([i \in NIdx |-> ClientC(i)], n) % q

\* the summands of the three accumulators of the current round, as the round
\* computes them: the c_i of Request, the atil[i][sk[i]] of BlindEval and the
\* a[i] (or 0) of the reference evaluation
CSummands == [i \in NIdx |-> ReqC(e_0[i], Sc_uint[ctr * n + i], b_bar[i])]
AtilSummands ==
    [i \in NIdx |-> Atil(IF sk[i] = 1 THEN e_1[i] ELSE e_0[i],
                         Lane0Uint(Rs_r[ctr * n + i]))]
EvalSummands == [i \in NIdx |-> IF sk[i] = 1 THEN a[i] ELSE 0]
\* after each of its k additions the accumulator holds the exact sum, which is
\* at most n * (q - 1)
NoWrap(f) ==
    \A k \in 1 .. n :
        /\ SumTo(f, k) <= n * (q - 1)
        /\ SumU(f, k) = SumTo(f, k)

\* C22: in every round the unreduced accumulators c_sum, atil_sum and eval_z
\* never exceed n * (q - 1), which is below the modulus of the unsigned type,
\* so they hold the exact sums until the final mask or shift.
C22_NoOverflow ==
    /\ n * (q - 1) < Word
    /\ pc \in RoundPcs /\ ctr < tau =>
        /\ NoWrap(CSummands) /\ NoWrap(AtilSummands) /\ NoWrap(EvalSummands)
        /\ c_sum = SumTo(CSummands, n) % q
        /\ pc # "blindeval" => atil_sum = SumTo(AtilSummands, n) % q

\* a round whose unreduced c_sum and atil_sum are above q - 1: the final mask
\* changes them
C22_Witness ==
    /\ pc = "sanity" /\ ctr < tau
    /\ SumTo(CSummands, n) >= q
    /\ SumTo(AtilSummands, n) >= q
    /\ SumTo(EvalSummands, n) > 0

\* C23: in every round every e_0[i] is 0 and every e_1[i] is in [0, q),
\* bpr_bar is in [0, delta), every y[k], k in [0, delta), is in [0, p) and z
\* is in [0, p); every phase-two choice bpr[i] is in [0, delta).
C23_Ranges ==
    /\ \A i \in DOMAIN bpr : bpr[i] \in 0 .. (delta - 1)
    /\ pc \in RoundPcs =>
        /\ \A i \in NIdx : e_0[i] = 0 /\ e_1[i] \in 0 .. (q - 1)
        /\ bpr_bar \in 0 .. (delta - 1)
    /\ pc \in {"finalize", "sanity"} =>
        /\ DOMAIN y = DeltaIdx
        /\ \A k \in DeltaIdx : y[k] \in 0 .. (p - 1)
    /\ z \in 0 .. (p - 1)

\* a round has produced its messages and z from sampled choices, none of the
\* values at the low end of its range
C23_Witness ==
    /\ pc = "sanity" /\ failed = {}
    /\ r2pc = "ret" /\ \E i \in TauIdx : bpr[i] = delta - 1
    /\ \E i \in NIdx : e_1[i] >= p
    /\ bpr_bar > 0
    /\ \E k \in DeltaIdx : y[k] = p - 1
    /\ z > 0

\* C24: the z of Finalize, computed with two wrapping unsigned subtractions
\* and one mask at the end, is the exact integer
\* y[c_sum mod delta] - lane 0 of Rc_r[ctr] - (c_sum - c_sum mod delta) / delta
\* reduced mod p, for every lane value and every c_sum in [0, q).
C24_FinalizeWrap ==
    pc = "sanity" /\ ctr < tau /\ c_sum \in 0 .. (q - 1) =>
        z = (y[c_sum % delta] - Rc_r[ctr] - ((c_sum - (c_sum % delta)) \div delta)) % p

\* Finalize has run with a lane above the entry of y and with its top bit set:
\* both subtractions wrapped
C24_Witness ==
    /\ pc = "sanity" /\ ctr < tau
    /\ Rc_r[ctr] >= Word \div 2
    /\ y[c_sum % delta] < Rc_r[ctr]
    /\ c_sum >= delta
    /\ z # 0

\* the buffers the role's calls so far have touched in this mode
Touched(r, mode) ==
    {c[1] : c \in {d \in UNION {Touches(r, trace[r][k][1]) : k \in Steps(r)} : d[2] = mode}}
\* the two roles of a phase, which run concurrently
Peer(r) ==
    CASE r = "p1r" -> "p1s" [] r = "p1s" -> "p1r" [] r = "p2r" -> "p2s" [] r = "p2s" -> "p2r"
\* the role whose thread takes the step, if it is the step of a role
Stepping(r) ==
    /\ trace'[r] # trace[r]
    /\ \A o \in Roles \ {r} : trace'[o] = trace[o]
\* a step of a running phase that changes the buffer is a step of one role,
\* by a call that writes the buffer
WrittenBy(name, changed) ==
    changed /\ pc \in {"p1", "p2"} =>
        \E r \in Roles :
            /\ Stepping(r)
            /\ \E k \in (Len(trace[r]) + 1) .. Len(trace'[r]) :
                <<name, "w">> \in Touches(r, trace'[r][k][1])

\* C25: while the two roles of a preprocessing phase run, the receiver writes
\* only b and Rs_r (phase two: bpr and Rc_r), the sender only Sc (Ss), and no
\* buffer written by one role is read or written by its peer.
C25_DisjointBuffers ==
    /\ [](/\ Touched("p1r", "w") \subseteq {"b", "Rs_r"}
          /\ Touched("p1s", "w") \subseteq {"Sc"}
          /\ Touched("p2r", "w") \subseteq {"bpr", "Rc_r"}
          /\ Touched("p2s", "w") \subseteq {"Ss"}
          /\ \A r \in Roles :
                Touched(r, "w") \cap (Touched(Peer(r), "r") \cup Touched(Peer(r), "w")) = {})
    /\ [][/\ WrittenBy("b", b' # b) /\ WrittenBy("Rs_r", Rs_r' # Rs_r)
          /\ WrittenBy("Sc", Sc' # Sc)
          /\ WrittenBy("bpr", bpr' # bpr) /\ WrittenBy("Rc_r", Rc_r' # Rc_r)
          /\ WrittenBy("Ss", Ss' # Ss)]_vars

\* both roles of phase two are in their loops, each having written its own
\* buffers, after a phase one in which both roles wrote theirs
C25_Witness ==
    /\ pc = "p2" /\ r2pc = "encode" /\ s2pc = "encode"
    /\ Touched("p1r", "w") = {"b", "Rs_r"} /\ Touched("p1s", "w") = {"Sc"}
    /\ Touched("p2r", "w") = {"bpr", "Rc_r"} /\ Touched("p2s", "w") = {"Ss"}
    /\ \E i \in TauIdx : Rc_r[i] # 0 /\ Ss[i][0] # 0

\* C28: with the threads scheduled fairly both roles of both preprocessing
\* phases return and both joins complete; the roles have then made
\* complementary calls: each its connect and its base OTs, and in a run
\* without an error the KKRT receiver as many sendCorrection calls as the
\* sender recvCorrection calls, ceil(tau / step).
C28_PrepTerminates ==
    /\ <>(pc = "keygen")
    /\ [](pc = "keygen" =>
            /\ r1pc = "ret" /\ s1pc = "ret" /\ r2pc = "ret" /\ s2pc = "ret"
            /\ \A r \in Roles : Made(r, "connect") /\ Made(r, "report")
            /\ Made("p1r", "baseOt") /\ Made("p1s", "baseOt")
            /\ failed = {} =>
                /\ Len(ArgsOf("p2r", "sendCorrection")) = (tau + step - 1) \div step
                /\ Len(ArgsOf("p2s", "recvCorrection")) = (tau + step - 1) \div step
                /\ corr = <<>>)

\* both joins have completed after a preprocessing without an error
C28_Witness ==
    /\ pc = "keygen" /\ failed = {}
    /\ Len(ArgsOf("p2r", "sendCorrection")) = Len(ArgsOf("p2s", "recvCorrection"))
    /\ Len(ArgsOf("p2s", "recvCorrection")) > 1

\* C26: in every round the column of Ss[ctr] that BlindEval puts into the
\* entry of y the client reads, y[c_sum mod delta], is the client's choice:
\* ((c_sum mod delta) - bpr_bar) mod delta = bpr[ctr]; the mask in that entry
\* is lane 0 of Ss[ctr][bpr[ctr]], the block the client holds as Rc_r[ctr].
C26_MaskAlignment ==
    pc \in {"finalize", "sanity"} /\ ctr < tau =>
        LET k == c_sum % delta IN
            /\ (k - bpr_bar) % delta = bpr[ctr]
            /\ y[k] = ((((atil_sum - k) % q) \div delta) + Ss[ctr][bpr[ctr]]) % p
            /\ PhaseTwoCorrect(ctr) => Ss[ctr][bpr[ctr]] = Rc_r[ctr]

\* BlindEval has run in a round whose choice, c_sum mod delta and bpr_bar are
\* all nonzero and whose mask is not 0 mod p
C26_Witness ==
    /\ pc = "finalize" /\ ctr < tau
    /\ bpr[ctr] # 0 /\ c_sum % delta # 0 /\ bpr_bar # 0
    /\ PhaseTwoCorrect(ctr)
    /\ Rc_r[ctr] % p # 0

\* C27: with num_rounds <= tau every index of a round is inside its array:
\* ctr < tau, ctr * n + i < n * tau for every i < n, every column
\* (k - bpr_bar) mod delta of Ss[ctr] is in [0, delta) and the index
\* c_sum mod delta of y is in [0, delta); no round has read outside an array.
C27_InRange ==
    num_rounds <= tau =>
        /\ ~oob /\ pc # "killed"
        /\ pc \in {"request"} \cup RoundPcs =>
            /\ ctr < tau
            /\ ctr \in DOMAIN bpr /\ ctr \in DOMAIN Rc_r /\ ctr \in DOMAIN Ss
            /\ \A i \in NIdx :
                /\ SlotIndex(ctr, i) < n * tau
                /\ SlotIndex(ctr, i) \in DOMAIN Sc_uint
                /\ SlotIndex(ctr, i) \in DOMAIN Rs_r
        /\ pc \in RoundPcs =>
            /\ \A k \in DeltaIdx : SsColumn(k, bpr_bar) \in DOMAIN Ss[ctr]
            /\ c_sum % delta \in DeltaIdx
        /\ \A r \in 1 .. Len(slots) :
            /\ slots[r].sc \subseteq DOMAIN Sc_uint /\ slots[r].rs \subseteq DOMAIN Rs_r
            /\ slots[r].bp \subseteq DOMAIN bpr /\ slots[r].rc \subseteq DOMAIN Rc_r
            /\ slots[r].ss \subseteq DOMAIN Ss

\* the last round of a session of tau rounds reads the last slot of every
\* array
C27_Witness ==
    /\ num_rounds = tau /\ pc = "sanity"
    /\ ctr = tau - 1
    /\ SlotIndex(ctr, n - 1) = n * tau - 1
    /\ slots[Len(slots)].rc = {tau - 1}

\* C29: lane 0 of a block read as a signed integer and assigned to an
\* unsigned holder of the same width is the unsigned lane, for every bit
\* pattern, top bit set included; so its reductions mod q, mod delta and
\* mod p are those of the unsigned lane, equal blocks give both roles the same
\* integer, and the z of Finalize is the one computed from the unsigned lane.
C29_LaneExtraction ==
    LET Same(blk) ==
            /\ Lane0Uint(blk) = blk
            /\ \A m \in {q, delta, p} : Lane0Uint(blk) % m = blk % m
    IN  /\ \A c \in DOMAIN Rc_r : Same(Rc_r[c])
        /\ \A c \in DOMAIN Ss : \A k \in DOMAIN Ss[c] : Same(Ss[c][k])
        /\ \A j \in DOMAIN Rs_r : Same(Rs_r[j])
        /\ \A j \in DOMAIN Sc : \A c \in DOMAIN Sc[j] : Same(Sc[j][c])
        /\ \A c \in DOMAIN Ss : \A k \in DOMAIN Ss[c] :
              c \in DOMAIN Rc_r /\ Ss[c][k] = Rc_r[c] =>
                  Lane0Uint(Ss[c][k]) = Lane0Uint(Rc_r[c])
        /\ pc = "sanity" /\ ctr < tau => z = FinalizeOf(y, c_sum, Rc_r[ctr])

\* Finalize has read a lane whose top bit is set: as a signed integer it is
\* negative
C29_Witness ==
    /\ pc = "sanity" /\ ctr < tau
    /\ Rc_r[ctr] >= Word \div 2
    /\ SignedLane0(Rc_r[ctr]) < 0
    /\ Rc_r[ctr] % p # 0
    /\ z = FinalizeOf(y, c_sum, Rc_r[ctr])

====
